---- MODULE Spec2Model ----
(***************************************************************************)
(* Model of igorsobreira/kvstore: the driver registry (Register), the      *)
(* KVStore facade (New, Set, Get, Delete, Close) and the in-memory         *)
(* backend.  The repository holds the backend contract in two forms:       *)
(*   - the Conn form: Driver.Open returns a fresh Conn and the facade      *)
(*     wraps the Conn (driver.go with Conn, memory.Driver / memory.Conn);  *)
(*   - the driver form: Driver.Open prepares the driver itself and the     *)
(*     facade wraps the registered driver (src/kvstore.go,                 *)
(*     src/memory/driver.go).                                              *)
(* Spec is the single-goroutine program over the Conn form; SpecMemory,    *)
(* SpecFacade and SpecTrail are that program over narrower inputs (the     *)
(* memory backend, the facade over memory and mock Conns, the memory       *)
(* backend with the history of calls); SpecDriverForm and SpecDriverOpen   *)
(* are the driver form; SpecConc is the concurrent program on one Conn.    *)
(***************************************************************************)
EXTENDS Integers, Sequences, FiniteSets, TLC

\* ------------------------------------------------------------------ bounds
\* Most KVStores a behaviour creates with New.
MaxStores == 2
\* Goroutines that call one memory.Conn concurrently (SpecConc).
NumGoroutines == 3

\* ------------------------------------------------------------------ inputs
\* A driver name is a Go string, kept as its characters because New formats
\* it with %q.  "memory" and "mock" are the names the packages and the tests
\* register; a"b is a name holding a character %q escapes.
NameMemory == <<"m", "e", "m", "o", "r", "y">>
NameMock == <<"m", "o", "c", "k">>
NameOdd == <<"a", "\"", "b">>
Names == {NameMemory, NameMock, NameOdd}
Infos == {"", "info"}
Keys == {"foo", "key"}
Bytes == {<<>>, <<98>>}

\* A []byte value: the nil slice, or a slice holding bytes.
NilBytes == [isNil |-> TRUE, bytes |-> <<>>]
Slice(b) == [isNil |-> FALSE, bytes |-> b]
Values == {NilBytes} \cup {Slice(b) : b \in Bytes}

\* ByteSliceEqual compares lengths and contents only: nil equals empty.
RECURSIVE ElementsEqual(_, _, _)
ElementsEqual(a, b, i) ==
    IF i > Len(a) THEN TRUE
    ELSE IF a[i] # b[i] THEN FALSE
    ELSE ElementsEqual(a, b, i + 1)
ByteSliceEqual(a, b) ==
    IF Len(a.bytes) # Len(b.bytes) THEN FALSE
    ELSE ElementsEqual(a.bytes, b.bytes, 1)

\* ------------------------------------------------------------------ errors
\* An error value: where it was allocated and its message.  A message is the
\* sequence of its parts in order: a literal of the source is one part, a
\* formatted string contributes one part per character.  Two errors are the
\* same value iff equal.
NoErr == [src |-> "nil", msg |-> <<>>]
ErrNotFound == [src |-> "kvstore.ErrNotFound", msg |-> <<"kvstore: key not found">>]
ErrorsNew(site, text) == [src |-> site, msg |-> <<text>>]

\* fmt's %q verb (strconv.Quote): the string in double quotes, with a
\* backslash before every double quote and backslash in it.
EscapeChar(ch) ==
    IF ch = "\"" THEN <<"\\", "\"">>
    ELSE IF ch = "\\" THEN <<"\\", "\\">>
    ELSE <<ch>>
RECURSIVE Escape(_)
Escape(s) == IF s = <<>> THEN <<>> ELSE EscapeChar(Head(s)) \o Escape(Tail(s))
\* Mutant: %q behaves as "%s" in quotes and escapes nothing.
Quote_NoEscape(s) == <<"\"">> \o s \o <<"\"">>

Quote(s) == <<"\"">> \o Escape(s) \o <<"\"">>
UnknownDriverErr(driverName) ==
    [src |-> "fmt.Errorf",
     msg |-> <<"kvstore: unknown driver ">> \o Quote(driverName)
               \o <<" (forgotten import?)">>]

NoPanic == <<>>
PanicNilDriver == <<"kvstore: Register driver is nil">>
PanicTwice(name) == <<"kvstore: Register called twice for driver ">> \o name

\* ----------------------------------------------------------------- drivers
NilDriver == "nil"
MemDriver == "memory.Driver"
MockFail == "MockDriver{OpenErr}"
MockOK == "MockDriver{OpenConn}"
MockDrivers == {MockFail, MockOK}
Drivers == {MemDriver} \cup MockDrivers

\* Conn references: 0 is the nil Conn, i >= 1 the i-th memory.Conn opened,
\* MockConnRef the test's MockConn.
NilConn == 0
MockConnRef == -1

\* The fields a test sets when it builds its mocks.
MockOpenErr(d) == IF d = MockFail THEN ErrorsNew("test", "open failed") ELSE NoErr
MockOpenConn(d) == IF d = MockOK THEN MockConnRef ELSE NilConn
MockSetErr == ErrorsNew("test", "failed to set")
MockGetErr == ErrorsNew("test", "failed to get")
MockGetValue == Slice(<<98, 97, 114>>)
MockDeleteErr == ErrorsNew("test", "failed to delete")
MockCloseErr == ErrorsNew("test", "failed to close")

VARIABLES
    drivers,    \* the registry: a function from the registered names to drivers
    openInfo,   \* MockDriver.OpenInfo of each mock driver
    conns,      \* the memory.Conn objects opened so far: [data, mux]
    stores,     \* the KVStores New returned: [conn] ([driver] in the driver form)
    memData,    \* driver form: the data map of the registered DriverMemory
    expected,   \* history: per store, the value the caller last Set under each key
    pc,         \* per goroutine of the concurrent program: the call it is in
    last,       \* the most recent call: arguments, results, calls it made
    trail       \* history (SpecTrail): what the latest call and the one before did

vars == <<drivers, openInfo, conns, stores, memData, expected, pc, last, trail>>

EmptyMap == [k \in {} |-> NilBytes]
\* A map field: nil until make() gives it a map.
NilMap == [isNil |-> TRUE, map |-> EmptyMap]
MakeMap == [isNil |-> FALSE, map |-> EmptyMap]
MuxFree == [w |-> FALSE, r |-> 0]

\* One call made on a collaborator (a driver or a conn) during an operation.
Invoke(fn, d, c, info, key, value) ==
    [fn |-> fn, driver |-> d, conn |-> c, info |-> info, key |-> key, value |-> value]
OpenCall(d, info) == Invoke("Open", d, NilConn, info, "", NilBytes)
ConnCall(fn, c, key, value) == Invoke(fn, NilDriver, c, "", key, value)

\* The goroutines of the concurrent program and where each one is: idle, or
\* in a call of op at "call" (entered, before the lock), "pending" (a writer
\* that holds the writers' mutex and waits for the readers to leave) or "cs"
\* (holding c.mux, before the body and the deferred unlock).
Goroutines == 1..NumGoroutines
Idle == [op |-> "none", store |-> 0, key |-> "", value |-> NilBytes, at |-> "idle"]

NoCall ==
    [op |-> "none", name |-> <<>>, info |-> "", driver |-> NilDriver, store |-> 0,
     key |-> "", value |-> NilBytes, retStore |-> 0, retValue |-> NilBytes,
     err |-> NoErr, panic |-> NoPanic, calls |-> <<>>]

\* trail.did is what the latest call did to its store and key, as its caller
\* saw it: "New" (it returned the store), "Set" (it stored a key the caller did
\* not have set), "Overwrite" (it replaced a key the caller had set), "Delete"
\* (it removed a key the caller had set), "DeleteAbsent" (it deleted a key the
\* caller did not have set), "Get" (it read a key), "Close" (it closed the
\* store), "" otherwise.  trail.after is the did of the call before it when
\* that call was on the same store and key, "" otherwise.
NoTrail == [did |-> "", after |-> ""]

Init ==
    /\ trail = NoTrail
    /\ drivers = [n \in {} |-> NilDriver]
    /\ openInfo = [d \in MockDrivers |-> ""]
    /\ conns = <<>>
    /\ stores = <<>>
    /\ memData = NilMap
    /\ expected = <<>>
    /\ pc = [g \in Goroutines |-> Idle]
    /\ last = NoCall

\* ---------------------------------------------------------------- registry
\* Mutant: a duplicate name is ignored without a panic.
RegisterOutcome_DupSilent(name, d) ==
    IF d = NilDriver THEN [panic |-> PanicNilDriver, drivers |-> drivers]
    ELSE IF name \in DOMAIN drivers THEN [panic |-> NoPanic, drivers |-> drivers]
    ELSE [panic |-> NoPanic,
          drivers |-> [n \in DOMAIN drivers \cup {name} |->
                          IF n = name THEN d ELSE drivers[n]]]

\* Mutant: the duplicate check comes before the nil check.
RegisterOutcome_DupFirst(name, d) ==
    IF name \in DOMAIN drivers THEN [panic |-> PanicTwice(name), drivers |-> drivers]
    ELSE IF d = NilDriver THEN [panic |-> PanicNilDriver, drivers |-> drivers]
    ELSE [panic |-> NoPanic,
          drivers |-> [n \in DOMAIN drivers \cup {name} |->
                          IF n = name THEN d ELSE drivers[n]]]

\* Mutant: no duplicate check, the later registration replaces the earlier.
RegisterOutcome_Overwrites(name, d) ==
    IF d = NilDriver THEN [panic |-> PanicNilDriver, drivers |-> drivers]
    ELSE [panic |-> NoPanic,
          drivers |-> [n \in DOMAIN drivers \cup {name} |->
                          IF n = name THEN d ELSE drivers[n]]]

\* Register: panics on a nil driver, then on a registered name, else inserts.
RegisterOutcome(name, d) ==
    IF d = NilDriver THEN [panic |-> PanicNilDriver, drivers |-> drivers]
    ELSE IF name \in DOMAIN drivers THEN [panic |-> PanicTwice(name), drivers |-> drivers]
    ELSE [panic |-> NoPanic,
          drivers |-> [n \in DOMAIN drivers \cup {name} |->
                          IF n = name THEN d ELSE drivers[n]]]

Register(name, d) ==
    LET out == RegisterOutcome(name, d) IN
    /\ drivers' = out.drivers
    /\ last' = [NoCall EXCEPT !.op = "Register", !.name = name, !.driver = d,
                              !.panic = out.panic]
    /\ UNCHANGED <<pc, openInfo, conns, stores, memData, expected>>

\* ------------------------------------------------------------ driver Open
\* Mutant: the new Conn starts with what the first Conn holds.
MemoryOpen_SharesMap(info) ==
    [conn |-> Len(conns) + 1, err |-> NoErr,
     conns |-> Append(conns, [data |-> IF conns = <<>> THEN EmptyMap ELSE conns[1].data,
                              mux |-> MuxFree]),
     openInfo |-> openInfo, seen |-> OpenCall(MemDriver, info)]

\* memory.Driver.Open: a new Conn with an empty map; info is ignored.
MemoryOpen(info) ==
    [conn |-> Len(conns) + 1, err |-> NoErr,
     conns |-> Append(conns, [data |-> EmptyMap, mux |-> MuxFree]),
     openInfo |-> openInfo, seen |-> OpenCall(MemDriver, info)]

\* MockDriver.Open: records info, returns the configured Conn and error.
MockOpen(d, info) ==
    [conn |-> MockOpenConn(d), err |-> MockOpenErr(d),
     conns |-> conns,
     openInfo |-> [openInfo EXCEPT ![d] = info], seen |-> OpenCall(d, info)]

\* Mutant: Open is handed an empty info.
DriverOpen_IgnoresInfo(d, info) ==
    IF d = MemDriver THEN MemoryOpen("") ELSE MockOpen(d, "")

\* d.Open(info) through the Driver interface.
DriverOpen(d, info) == IF d = MemDriver THEN MemoryOpen(info) ELSE MockOpen(d, info)

\* ------------------------------------------------------------------ facade
\* Mutant: the error of Open is dropped.
OpenFailed_Never(err) == FALSE

\* New: if err != nil { return nil, err }
OpenFailed(err) == err # NoErr

NewUnknown(driverName, driverInfo) ==
    /\ driverName \notin DOMAIN drivers
    /\ last' = [NoCall EXCEPT !.op = "New", !.name = driverName, !.info = driverInfo,
                              !.err = UnknownDriverErr(driverName)]
    /\ UNCHANGED <<pc, drivers, openInfo, conns, stores, memData, expected>>

NewOpen(driverName, driverInfo) ==
    /\ driverName \in DOMAIN drivers
    /\ Len(stores) < MaxStores
    /\ LET d == drivers[driverName]
           o == DriverOpen(d, driverInfo)
       IN  /\ conns' = o.conns
           /\ openInfo' = o.openInfo
           /\ IF OpenFailed(o.err)
              THEN /\ last' = [NoCall EXCEPT !.op = "New", !.name = driverName,
                                  !.info = driverInfo, !.err = o.err,
                                  !.calls = <<o.seen>>]
                   /\ UNCHANGED <<stores, expected>>
              ELSE /\ stores' = Append(stores, [conn |-> o.conn])
                   /\ expected' = Append(expected, EmptyMap)
                   /\ last' = [NoCall EXCEPT !.op = "New", !.name = driverName,
                                  !.info = driverInfo, !.retStore = Len(stores) + 1,
                                  !.calls = <<o.seen>>]
    /\ UNCHANGED <<pc, drivers, memData>>

New(driverName, driverInfo) ==
    \/ NewUnknown(driverName, driverInfo)
    \/ NewOpen(driverName, driverInfo)

\* ------------------------------------------------------------- memory.Conn
MapSet(data, key, value) ==
    [k \in DOMAIN data \cup {key} |-> IF k = key THEN value ELSE data[k]]
MapDelete(data, key) == [k \in DOMAIN data \ {key} |-> data[k]]

\* Mutant: Set keeps the value of a key that is already stored.
ConnSet_KeepsExisting(data, key, value) ==
    [err |-> NoErr,
     data |-> IF key \in DOMAIN data THEN data ELSE MapSet(data, key, value)]

\* Conn.Set: c.data[key] = value; return nil
ConnSet(data, key, value) == [err |-> NoErr, data |-> MapSet(data, key, value)]

\* Conn.Get: value, ok = c.data[key]; ErrNotFound when !ok
ConnGet(data, key) ==
    IF key \in DOMAIN data
    THEN [value |-> data[key], err |-> NoErr]
    ELSE [value |-> NilBytes, err |-> ErrNotFound]

\* Mutant: Delete empties the map.
ConnDelete_Clears(data, key) == [err |-> NoErr, data |-> EmptyMap]
\* Mutant: Delete returns nil and removes nothing.
ConnDelete_KeepsKey(data, key) == [err |-> NoErr, data |-> data]
\* Mutant: Delete of a key that is not stored is an error.
ConnDelete_ErrWhenAbsent(data, key) ==
    [err |-> IF key \in DOMAIN data THEN NoErr ELSE ErrNotFound,
     data |-> MapDelete(data, key)]

\* Conn.Delete: delete(c.data, key); return nil
ConnDelete(data, key) == [err |-> NoErr, data |-> MapDelete(data, key)]

\* Mutant: Close drops the map's entries.
ConnClose_Clears(data) == [err |-> NoErr, data |-> EmptyMap]

\* Conn.Close: return nil
ConnClose(data) == [err |-> NoErr, data |-> data]

\* ---------------------------------------------------------------- MockConn
\* Each method records its arguments in the mock's fields (seen) and returns
\* the configured results.
MockConnSet(key, value) ==
    [err |-> MockSetErr, seen |-> ConnCall("Set", MockConnRef, key, value)]
MockConnGet(key) ==
    [value |-> MockGetValue, err |-> MockGetErr,
     seen |-> ConnCall("Get", MockConnRef, key, NilBytes)]
MockConnDelete(key) ==
    [err |-> MockDeleteErr, seen |-> ConnCall("Delete", MockConnRef, key, NilBytes)]
MockConnClose == [err |-> MockCloseErr, seen |-> ConnCall("Close", MockConnRef, "", NilBytes)]

\* --------------------------------------------- calls through the Conn interface
\* In Spec one goroutine runs each call to its end, so a memory.Conn method
\* takes c.mux, works on c.data and releases c.mux within one step.
IsMemory(c) == c \in 1..Len(conns)

CallSet(c, key, value) ==
    IF IsMemory(c)
    THEN LET r == ConnSet(conns[c].data, key, value) IN
         [err |-> r.err, conns |-> [conns EXCEPT ![c].data = r.data],
          seen |-> ConnCall("Set", c, key, value)]
    ELSE LET r == MockConnSet(key, value) IN
         [err |-> r.err, conns |-> conns, seen |-> r.seen]

\* Mutant: Get takes the entry out of the map.
CallGet_Consumes(c, key) ==
    IF IsMemory(c)
    THEN LET r == ConnGet(conns[c].data, key) IN
         [value |-> r.value, err |-> r.err,
          conns |-> [conns EXCEPT ![c].data = MapDelete(@, key)],
          seen |-> ConnCall("Get", c, key, NilBytes)]
    ELSE LET r == MockConnGet(key) IN
         [value |-> r.value, err |-> r.err, conns |-> conns, seen |-> r.seen]

\* Mutant: the value is dropped when the Conn returns an error.
CallGet_DropsValueOnError(c, key) ==
    IF IsMemory(c)
    THEN LET r == ConnGet(conns[c].data, key) IN
         [value |-> r.value, err |-> r.err, conns |-> conns,
          seen |-> ConnCall("Get", c, key, NilBytes)]
    ELSE LET r == MockConnGet(key) IN
         [value |-> IF r.err = NoErr THEN r.value ELSE NilBytes, err |-> r.err,
          conns |-> conns, seen |-> r.seen]

CallGet(c, key) ==
    IF IsMemory(c)
    THEN LET r == ConnGet(conns[c].data, key) IN
         [value |-> r.value, err |-> r.err, conns |-> conns,
          seen |-> ConnCall("Get", c, key, NilBytes)]
    ELSE LET r == MockConnGet(key) IN
         [value |-> r.value, err |-> r.err, conns |-> conns, seen |-> r.seen]

CallDelete(c, key) ==
    IF IsMemory(c)
    THEN LET r == ConnDelete(conns[c].data, key) IN
         [err |-> r.err, conns |-> [conns EXCEPT ![c].data = r.data],
          seen |-> ConnCall("Delete", c, key, NilBytes)]
    ELSE LET r == MockConnDelete(key) IN
         [err |-> r.err, conns |-> conns, seen |-> r.seen]

CallClose(c) ==
    IF IsMemory(c)
    THEN LET r == ConnClose(conns[c].data) IN
         [err |-> r.err, conns |-> [conns EXCEPT ![c].data = r.data],
          seen |-> ConnCall("Close", c, "", NilBytes)]
    ELSE LET r == MockConnClose IN
         [err |-> r.err, conns |-> conns, seen |-> r.seen]

\* ------------------------------------------- facade: Set, Get, Delete, Close
\* History kept beside the program: what the caller of store s has written.
\* It follows the calls' arguments and returned errors, never the backend.
Expect(s, key, value, err) ==
    IF err = NoErr THEN [expected EXCEPT ![s] = MapSet(@, key, value)] ELSE expected
ExpectGone(s, key, err) ==
    IF err = NoErr THEN [expected EXCEPT ![s] = MapDelete(@, key)] ELSE expected

\* KVStore.Set: return s.conn.Set(key, value)
Set(s, key, value) ==
    LET r == CallSet(stores[s].conn, key, value) IN
    /\ conns' = r.conns
    /\ expected' = Expect(s, key, value, r.err)
    /\ last' = [NoCall EXCEPT !.op = "Set", !.store = s, !.key = key, !.value = value,
                              !.err = r.err, !.calls = <<r.seen>>]
    /\ UNCHANGED <<pc, drivers, openInfo, stores, memData>>

\* KVStore.Get: return s.conn.Get(key)
Get(s, key) ==
    LET r == CallGet(stores[s].conn, key) IN
    /\ conns' = r.conns
    /\ last' = [NoCall EXCEPT !.op = "Get", !.store = s, !.key = key,
                              !.retValue = r.value, !.err = r.err, !.calls = <<r.seen>>]
    /\ UNCHANGED <<pc, drivers, openInfo, stores, memData, expected>>

\* KVStore.Delete: return s.conn.Delete(key)
Delete(s, key) ==
    LET r == CallDelete(stores[s].conn, key) IN
    /\ conns' = r.conns
    /\ expected' = ExpectGone(s, key, r.err)
    /\ last' = [NoCall EXCEPT !.op = "Delete", !.store = s, !.key = key,
                              !.err = r.err, !.calls = <<r.seen>>]
    /\ UNCHANGED <<pc, drivers, openInfo, stores, memData>>

\* KVStore.Close: return s.conn.Close()
Close(s) ==
    LET r == CallClose(stores[s].conn) IN
    /\ conns' = r.conns
    /\ last' = [NoCall EXCEPT !.op = "Close", !.store = s, !.err = r.err,
                              !.calls = <<r.seen>>]
    /\ UNCHANGED <<pc, drivers, openInfo, stores, memData, expected>>

StoreIds == 1..Len(stores)

\* The history of a call (last') made after the call last.
Did(call) ==
    IF call.panic # NoPanic \/ call.err \notin {NoErr, ErrNotFound} THEN ""
    ELSE IF call.op = "New" THEN "New"
    ELSE IF call.op = "Set"
         THEN IF call.key \in DOMAIN expected[call.store] THEN "Overwrite" ELSE "Set"
    ELSE IF call.op = "Delete"
         THEN IF call.key \in DOMAIN expected[call.store] THEN "Delete" ELSE "DeleteAbsent"
    ELSE IF call.op \in {"Get", "Close"} THEN call.op
    ELSE ""

SameTarget(prev, call) ==
    /\ call.op \in {"Set", "Get", "Delete", "Close"}
    /\ \/ prev.op = "New" /\ prev.retStore = call.store
       \/ prev.op = "Close" /\ prev.store = call.store
       \/ /\ prev.op \in {"Set", "Get", "Delete"}
          /\ prev.store = call.store
          /\ call.op = "Close" \/ prev.key = call.key

Follow == [did |-> Did(last'), after |-> IF SameTarget(last, last') THEN trail.did ELSE ""]

\* Whether a specification keeps the history.
Trail(traced) == IF traced THEN trail' = Follow ELSE UNCHANGED trail

\* One goroutine calling the package with arguments from the given sets.
Program(names, ds, infos, keys, values, traced) ==
    \/ \E name \in names, d \in ds : Register(name, d) /\ Trail(traced)
    \/ \E name \in names, info \in infos : New(name, info) /\ Trail(traced)
    \/ \E s \in StoreIds, key \in keys, value \in values :
           Set(s, key, value) /\ Trail(traced)
    \/ \E s \in StoreIds, key \in keys : Get(s, key) /\ Trail(traced)
    \/ \E s \in StoreIds, key \in keys : Delete(s, key) /\ Trail(traced)
    \/ \E s \in StoreIds : Close(s) /\ Trail(traced)

\* Spec: the registry and the facade over every driver, nil included, with
\* the key and the value of the facade's tests.
Next == Program(Names, Drivers \cup {NilDriver}, Infos, {"foo"},
                {Slice(<<98, 97, 114>>)}, FALSE)

Spec == Init /\ [][Next]_vars

\* SpecMemory: the program that imports only the memory backend (its init()
\* registers the driver as "memory"), with every key and value.
NextMemory == Program({NameMemory}, {MemDriver}, {""}, Keys, Values, FALSE)

SpecMemory == Init /\ [][NextMemory]_vars

\* SpecFacade: the facade over a memory.Conn and over the tests' MockConn,
\* with every key.
NextFacade ==
    Program({NameMemory, NameMock}, {MemDriver, MockOK}, {""}, Keys,
            {Slice(<<98, 97, 114>>)}, FALSE)

SpecFacade == Init /\ [][NextFacade]_vars

\* SpecTrail: the memory program with the history of its calls kept, over
\* every key, the empty value and a one-byte value.
NextTrail == Program({NameMemory}, {MemDriver}, {""}, Keys, {Slice(b) : b \in Bytes}, TRUE)

SpecTrail == Init /\ [][NextTrail]_vars

\* ======================================================================
\* The driver form (src/kvstore.go, src/memory/driver.go): Open prepares the
\* registered driver itself and the KVStore wraps that driver.
\* ======================================================================
DriverMemory == "memory.DriverMemory"
DriverFormDrivers == {DriverMemory} \cup MockDrivers

\* Mutant: Open returns nil without making the map.
DriverMemoryOpen_NoMake(info) ==
    [err |-> NoErr, memData |-> memData, openInfo |-> openInfo,
     seen |-> OpenCall(DriverMemory, info)]

\* DriverMemory.Open: d.data = make(map[string][]byte); return nil
DriverMemoryOpen(info) ==
    [err |-> NoErr, memData |-> MakeMap, openInfo |-> openInfo,
     seen |-> OpenCall(DriverMemory, info)]

\* MockDriver.Open of the driver form: d.OpenInfo = info; return d.OpenErr
MockDriverOpen(d, info) ==
    [err |-> MockOpenErr(d), memData |-> memData,
     openInfo |-> [openInfo EXCEPT ![d] = info], seen |-> OpenCall(d, info)]

DriverFormOpen(d, info) ==
    IF d = DriverMemory THEN DriverMemoryOpen(info) ELSE MockDriverOpen(d, info)

PanicNilMap == <<"assignment to entry in nil map">>

\* DriverMemory.Set: d.data[key] = value (a write to a nil map panics)
DriverMemorySet(key, value) ==
    IF memData.isNil
    THEN [err |-> NoErr, panic |-> PanicNilMap, memData |-> memData]
    ELSE [err |-> NoErr, panic |-> NoPanic,
          memData |-> [memData EXCEPT !.map = MapSet(@, key, value)]]

\* DriverMemory.Get: value, ok = d.data[key]
DriverMemoryGet(key) ==
    IF key \in DOMAIN memData.map
    THEN [value |-> memData.map[key], err |-> NoErr]
    ELSE [value |-> NilBytes, err |-> ErrNotFound]

\* DriverMemory.Delete: delete(d.data, key)
DriverMemoryDelete(key) ==
    [err |-> NoErr, memData |-> [memData EXCEPT !.map = MapDelete(@, key)]]

\* kvstore.go New: d.Open(driverInfo), then &KVStore{d}
DriverFormNew(driverName, driverInfo) ==
    \/ NewUnknown(driverName, driverInfo)
    \/ /\ driverName \in DOMAIN drivers
       /\ Len(stores) < MaxStores
       /\ LET d == drivers[driverName]
              o == DriverFormOpen(d, driverInfo)
          IN  /\ memData' = o.memData
              /\ openInfo' = o.openInfo
              /\ IF OpenFailed(o.err)
                 THEN /\ last' = [NoCall EXCEPT !.op = "New", !.name = driverName,
                                     !.info = driverInfo, !.err = o.err,
                                     !.calls = <<o.seen>>]
                      /\ UNCHANGED <<stores, expected>>
                 ELSE /\ stores' = Append(stores, [driver |-> d])
                      /\ expected' = Append(expected, EmptyMap)
                      /\ last' = [NoCall EXCEPT !.op = "New", !.name = driverName,
                                     !.info = driverInfo, !.retStore = Len(stores) + 1,
                                     !.calls = <<o.seen>>]
       /\ UNCHANGED <<pc, drivers, conns>>

DriverCall(fn, d, key, value) == Invoke(fn, d, NilConn, "", key, value)

\* kvstore.go KVStore.Set: return s.driver.Set(key, value)
DriverFormSet(s, key, value) ==
    LET d == stores[s].driver
        r == IF d = DriverMemory THEN DriverMemorySet(key, value)
             ELSE [err |-> MockSetErr, panic |-> NoPanic, memData |-> memData]
    IN  /\ memData' = r.memData
        /\ expected' = IF r.panic = NoPanic THEN Expect(s, key, value, r.err) ELSE expected
        /\ last' = [NoCall EXCEPT !.op = "Set", !.store = s, !.key = key, !.value = value,
                                  !.err = r.err, !.panic = r.panic,
                                  !.calls = <<DriverCall("Set", d, key, value)>>]
        /\ UNCHANGED <<pc, drivers, openInfo, conns, stores>>

\* kvstore.go KVStore.Get: return s.driver.Get(key)
DriverFormGet(s, key) ==
    LET d == stores[s].driver
        r == IF d = DriverMemory THEN DriverMemoryGet(key)
             ELSE [value |-> MockGetValue, err |-> MockGetErr]
    IN  /\ last' = [NoCall EXCEPT !.op = "Get", !.store = s, !.key = key,
                                  !.retValue = r.value, !.err = r.err,
                                  !.calls = <<DriverCall("Get", d, key, NilBytes)>>]
        /\ UNCHANGED <<pc, drivers, openInfo, conns, stores, memData, expected>>

\* kvstore.go KVStore.Delete: return s.driver.Delete(key)
DriverFormDelete(s, key) ==
    LET d == stores[s].driver
        r == IF d = DriverMemory THEN DriverMemoryDelete(key)
             ELSE [err |-> MockDeleteErr, memData |-> memData]
    IN  /\ memData' = r.memData
        /\ expected' = ExpectGone(s, key, r.err)
        /\ last' = [NoCall EXCEPT !.op = "Delete", !.store = s, !.key = key,
                                  !.err = r.err,
                                  !.calls = <<DriverCall("Delete", d, key, NilBytes)>>]
        /\ UNCHANGED <<pc, drivers, openInfo, conns, stores>>

\* The names the driver-form tests register and open.
DriverFormNames == {NameMemory, NameMock}
\* The values they set: a value and the empty value.
DriverFormValues == {Slice(b) : b \in Bytes}

\* One goroutine calling the driver-form package with arguments from the
\* given sets.
ProgramDriverForm(names, ds, infos, keys, values) ==
    \/ \E name \in names, d \in ds : Register(name, d) /\ Trail(FALSE)
    \/ \E name \in names, info \in infos : DriverFormNew(name, info) /\ Trail(FALSE)
    \/ \E s \in StoreIds, key \in keys, value \in values :
           DriverFormSet(s, key, value) /\ Trail(FALSE)
    \/ \E s \in StoreIds, key \in keys : DriverFormGet(s, key) /\ Trail(FALSE)
    \/ \E s \in StoreIds, key \in keys : DriverFormDelete(s, key) /\ Trail(FALSE)

NextDriverForm ==
    ProgramDriverForm(DriverFormNames, DriverFormDrivers \cup {NilDriver}, Infos, Keys,
                      DriverFormValues)

SpecDriverForm == Init /\ [][NextDriverForm]_vars

\* SpecDriverOpen: the driver-form program over the memory driver, whose map
\* is nil until Open, and a mock driver whose Open fails.
NextDriverOpen ==
    ProgramDriverForm(DriverFormNames, {DriverMemory, MockFail}, {""}, Keys,
                      {Slice(<<98>>)})

SpecDriverOpen == Init /\ [][NextDriverOpen]_vars

\* ======================================================================
\* The concurrent program (TestThreadSafe): goroutines call Set, Get and
\* Delete on the one store New("memory", "") returned.  A call is three
\* steps: it is entered, c.mux is taken, and the body runs with the deferred
\* unlock.  sync.RWMutex: RLock waits while a Lock call holds or awaits the
\* lock; Lock takes the writers' mutex, then waits for the readers to leave.
\* ======================================================================
ConcKeys == {"go"}
ConcValues == {Slice(<<108>>), Slice(<<103>>)}

\* The state TestThreadSafe starts its goroutines in: memory's init() has
\* registered the driver and New("memory", "") has returned the store.
InitConc ==
    /\ trail = NoTrail
    /\ drivers = [n \in {NameMemory} |-> MemDriver]
    /\ openInfo = [d \in MockDrivers |-> ""]
    /\ conns = <<[data |-> EmptyMap, mux |-> MuxFree]>>
    /\ stores = <<[conn |-> 1]>>
    /\ memData = NilMap
    /\ expected = <<EmptyMap>>
    /\ pc = [g \in Goroutines |-> Idle]
    /\ last = [NoCall EXCEPT !.op = "New", !.name = NameMemory, !.retStore = 1,
                             !.calls = <<OpenCall(MemDriver, "")>>]

ConnOf(g) == stores[pc[g].store].conn
MuxOf(g) == conns[ConnOf(g)].mux
IsWrite(op) == op \in {"Set", "Delete"}

\* go func() { store.Set / store.Get / store.Delete ... }: the call is entered.
GoCall(g, s, op, key, value) ==
    /\ pc[g].at = "idle"
    /\ IsMemory(stores[s].conn)
    /\ pc' = [pc EXCEPT ![g] = [op |-> op, store |-> s, key |-> key,
                                value |-> value, at |-> "call"]]
    /\ UNCHANGED <<drivers, openInfo, conns, stores, memData, expected, last, trail>>

\* Mutant: RLock does not look at the writers.
CanRLock_IgnoresWriter(mux) == TRUE

\* c.mux.RLock() may pass: no Lock call holds or awaits the lock.
CanRLock(mux) == ~mux.w
\* Mutant: Lock does not look at the other writers.
CanLock_IgnoresWriter(mux) == TRUE
\* Mutant: a Lock call passes while readers hold the lock.
CanEnter_IgnoresReaders(mux) == TRUE

\* c.mux.Lock() may take the writers' mutex: no other Lock call has it.
CanLock(mux) == ~mux.w
\* The Lock call that has the writers' mutex may pass: the readers have left.
CanEnter(mux) == mux.r = 0

\* Get: c.mux.RLock()
RLock(g) ==
    /\ pc[g].at = "call" /\ pc[g].op = "Get"
    /\ CanRLock(MuxOf(g))
    /\ conns' = [conns EXCEPT ![ConnOf(g)].mux.r = @ + 1]
    /\ pc' = [pc EXCEPT ![g].at = "cs"]
    /\ UNCHANGED <<drivers, openInfo, stores, memData, expected, last, trail>>

\* Set, Delete: c.mux.Lock(), first half: the writers' mutex is taken and the
\* readers are told a writer waits.
Lock(g) ==
    /\ pc[g].at = "call" /\ IsWrite(pc[g].op)
    /\ CanLock(MuxOf(g))
    /\ conns' = [conns EXCEPT ![ConnOf(g)].mux.w = TRUE]
    /\ pc' = [pc EXCEPT ![g].at = "pending"]
    /\ UNCHANGED <<drivers, openInfo, stores, memData, expected, last, trail>>

\* Set, Delete: c.mux.Lock(), second half: the lock is held.
LockEnter(g) ==
    /\ pc[g].at = "pending"
    /\ CanEnter(MuxOf(g))
    /\ pc' = [pc EXCEPT ![g].at = "cs"]
    /\ UNCHANGED <<drivers, openInfo, conns, stores, memData, expected, last, trail>>

\* A map access made while another goroutine is inside a critical section of
\* the same Conn that writes the map, or a map write made while another
\* goroutine is inside any critical section of it, is a data race.  Its
\* outcomes: the access sees or leaves an entry that no caller passed whole
\* (Torn), or the runtime stops the program.
Torn == Slice(<<0>>)
PanicConcurrentMap == <<"fatal error: concurrent map access">>
RaceOutcomes == {"torn", "fatal"}
RacesAsReader(g) ==
    \E h \in Goroutines \ {g} :
        pc[h].at = "cs" /\ IsWrite(pc[h].op) /\ ConnOf(h) = ConnOf(g)
RacesAsWriter(g) ==
    \E h \in Goroutines \ {g} : pc[h].at = "cs" /\ ConnOf(h) = ConnOf(g)

\* What the callers see: the call that returned.
Returned(g, value, err, panic) ==
    [NoCall EXCEPT !.op = pc[g].op, !.store = pc[g].store, !.key = pc[g].key,
                   !.value = pc[g].value, !.retValue = value, !.err = err,
                   !.panic = panic,
                   !.calls = <<ConnCall(pc[g].op, ConnOf(g), pc[g].key, pc[g].value)>>]

\* Set: c.data[key] = value; return nil; deferred c.mux.Unlock()
SetBody(g) ==
    /\ pc[g].at = "cs" /\ pc[g].op = "Set"
    /\ LET c == ConnOf(g) IN
       IF RacesAsWriter(g)
       THEN \E out \in RaceOutcomes :
               /\ conns' = [conns EXCEPT
                               ![c].data = IF out = "torn" THEN MapSet(@, pc[g].key, Torn)
                                           ELSE @,
                               ![c].mux.w = FALSE]
               /\ expected' = IF out = "torn"
                               THEN Expect(pc[g].store, pc[g].key, pc[g].value, NoErr)
                               ELSE expected
               /\ last' = Returned(g, NilBytes, NoErr,
                                   IF out = "fatal" THEN PanicConcurrentMap ELSE NoPanic)
       ELSE LET r == ConnSet(conns[c].data, pc[g].key, pc[g].value) IN
            /\ conns' = [conns EXCEPT ![c].data = r.data, ![c].mux.w = FALSE]
            /\ expected' = Expect(pc[g].store, pc[g].key, pc[g].value, r.err)
            /\ last' = Returned(g, NilBytes, r.err, NoPanic)
    /\ pc' = [pc EXCEPT ![g] = Idle]
    /\ UNCHANGED <<drivers, openInfo, stores, memData, trail>>

\* Get: value, ok = c.data[key]; return; deferred c.mux.RUnlock()
GetBody(g) ==
    /\ pc[g].at = "cs" /\ pc[g].op = "Get"
    /\ conns' = [conns EXCEPT ![ConnOf(g)].mux.r = @ - 1]
    /\ IF RacesAsReader(g)
       THEN \E out \in RaceOutcomes :
               last' = IF out = "torn" THEN Returned(g, Torn, NoErr, NoPanic)
                       ELSE Returned(g, NilBytes, NoErr, PanicConcurrentMap)
       ELSE LET r == ConnGet(conns[ConnOf(g)].data, pc[g].key) IN
            last' = Returned(g, r.value, r.err, NoPanic)
    /\ pc' = [pc EXCEPT ![g] = Idle]
    /\ UNCHANGED <<drivers, openInfo, stores, memData, expected, trail>>

\* Delete: delete(c.data, key); return nil; deferred c.mux.Unlock()
DeleteBody(g) ==
    /\ pc[g].at = "cs" /\ pc[g].op = "Delete"
    /\ LET c == ConnOf(g) IN
       IF RacesAsWriter(g)
       THEN \E out \in RaceOutcomes :
               /\ conns' = [conns EXCEPT
                               ![c].data = IF out = "torn" THEN MapSet(@, pc[g].key, Torn)
                                           ELSE @,
                               ![c].mux.w = FALSE]
               /\ expected' = IF out = "torn"
                               THEN ExpectGone(pc[g].store, pc[g].key, NoErr)
                               ELSE expected
               /\ last' = Returned(g, NilBytes, NoErr,
                                   IF out = "fatal" THEN PanicConcurrentMap ELSE NoPanic)
       ELSE LET r == ConnDelete(conns[c].data, pc[g].key) IN
            /\ conns' = [conns EXCEPT ![c].data = r.data, ![c].mux.w = FALSE]
            /\ expected' = ExpectGone(pc[g].store, pc[g].key, r.err)
            /\ last' = Returned(g, NilBytes, r.err, NoPanic)
    /\ pc' = [pc EXCEPT ![g] = Idle]
    /\ UNCHANGED <<drivers, openInfo, stores, memData, trail>>

\* The steps of a call that is under way.
Step(g) ==
    \/ RLock(g)
    \/ Lock(g)
    \/ LockEnter(g)
    \/ SetBody(g)
    \/ GetBody(g)
    \/ DeleteBody(g)

\* Goroutines calling the store with arguments from the given sets.
ProgramConc(keys, values) ==
    \/ \E g \in Goroutines, s \in StoreIds, key \in keys, value \in values :
           GoCall(g, s, "Set", key, value)
    \/ \E g \in Goroutines, s \in StoreIds, key \in keys :
           GoCall(g, s, "Get", key, NilBytes)
    \/ \E g \in Goroutines, s \in StoreIds, key \in keys :
           GoCall(g, s, "Delete", key, NilBytes)
    \/ \E g \in Goroutines : Step(g)

NextConc == ProgramConc(ConcKeys, ConcValues)

\* The Go scheduler runs every runnable goroutine, and a goroutine blocked in
\* RLock or Lock gets the lock if it is free again and again: a blocked Lock
\* keeps new readers out, Unlock lets the blocked readers in, and sync.Mutex
\* hands the writers' mutex to a starved waiter.
FairConc == \A g \in Goroutines : SF_vars(Step(g))

SpecConc == InitConc /\ [][NextConc]_vars /\ FairConc

\* SpecConcKeys: the concurrent program writing two keys.
NextConcKeys == ProgramConc(Keys, {Slice(<<98>>)})

SpecConcKeys == InitConc /\ [][NextConcKeys]_vars

\* ======================================================================
\* Properties
\* ======================================================================
\* Store s is backed by the in-memory backend (either form).
IsMemoryStore(s) ==
    IF "conn" \in DOMAIN stores[s]
    THEN IsMemory(stores[s].conn)
    ELSE stores[s].driver = DriverMemory

\* The methods of the KVStore type store s is a value of: the KVStore over a
\* Conn has Close, the KVStore over a Driver (src/kvstore.go) has not.
MethodSet(s) ==
    IF "conn" \in DOMAIN stores[s]
    THEN {"Set", "Get", "Delete", "Close"}
    ELSE {"Set", "Get", "Delete"}

\* The map behind store s (empty for a mock, which stores nothing).
Contents(s) ==
    IF ~IsMemoryStore(s) THEN EmptyMap
    ELSE IF "conn" \in DOMAIN stores[s] THEN conns[stores[s].conn].data
    ELSE memData.map

\* C1: round trip on a memory store.  Set returns nil; and a Get of a key
\* whose latest write through that store was Set(k, v) returns exactly v
\* with a nil error, whatever happened to other keys and other stores.
C1_RoundTrip ==
    /\ (last.op = "Set" /\ IsMemoryStore(last.store)) =>
           (last.err = NoErr /\ last.panic = NoPanic)
    /\ (last.op = "Get" /\ IsMemoryStore(last.store)
            /\ last.key \in DOMAIN expected[last.store]) =>
           /\ last.err = NoErr
           /\ last.retValue = expected[last.store][last.key]
           /\ ByteSliceEqual(last.retValue, expected[last.store][last.key])

\* A Get returned a non-empty value from a memory store that holds two keys
\* while another memory store holds something else under the same key.
C1_Witness ==
    /\ last.op = "Get"
    /\ IsMemoryStore(last.store)
    /\ DOMAIN expected[last.store] = Keys
    /\ last.retValue = Slice(<<98>>)
    /\ \E t \in StoreIds \ {last.store} :
           /\ IsMemoryStore(t)
           /\ last.key \in DOMAIN Contents(t)
           /\ Contents(t)[last.key] # last.retValue

\* C2: cross-instance isolation.  A Get through one memory store of a key that
\* store's caller does not have set returns ErrNotFound, whatever was set
\* through the other stores.
C2_Isolation ==
    (last.op = "Get" /\ IsMemoryStore(last.store)
        /\ last.key \notin DOMAIN expected[last.store]) =>
        (last.err = ErrNotFound /\ last.retValue = NilBytes)

\* C3: exclusive ownership.  A New call leaves the contents of every store
\* created before it unchanged.
C3_NewKeepsContents ==
    [][last'.op = "New" =>
          \A s \in StoreIds : Contents(s)' = Contents(s)]_vars

InCall(g) == pc[g].at # "idle"
InCS(g) == pc[g].at = "cs"
Readers(c) == {g \in Goroutines : InCS(g) /\ pc[g].op = "Get" /\ ConnOf(g) = c}
Writers(c) ==
    {g \in Goroutines : pc[g].at \in {"pending", "cs"} /\ IsWrite(pc[g].op) /\ ConnOf(g) = c}

\* No goroutine touches the map while a writer does; the lock's state is
\* exactly the calls that hold it (a lock taken is given back at the return);
\* and while a call is under way some call can take a step (no deadlock).
C4_Safe ==
    /\ \A g \in Goroutines :
           (InCS(g) /\ IsWrite(pc[g].op)) =>
               \A h \in Goroutines \ {g} : ~(InCS(h) /\ ConnOf(h) = ConnOf(g))
    /\ \A c \in 1..Len(conns) :
           /\ conns[c].mux.r = Cardinality(Readers(c))
           /\ conns[c].mux.w = (Writers(c) # {})
           /\ Cardinality(Writers(c)) <= 1
    /\ (\E g \in Goroutines : InCall(g)) => ENABLED (\E g \in Goroutines : Step(g))

\* C4: concurrent Set, Get and Delete on one memory connection are safe (see
\* C4_Safe) and every call returns.
C4_ConcurrencySafe ==
    /\ []C4_Safe
    /\ \A g \in Goroutines : InCall(g) ~> ~InCall(g)

\* A Set holds the lock while a Delete and a Get of the same key wait for it.
C4_Witness ==
    \E g, h, i \in Goroutines :
        /\ pc[g].op = "Set" /\ InCS(g)
        /\ pc[h].op = "Delete" /\ pc[h].at = "call"
        /\ pc[i].op = "Get" /\ pc[i].at = "call"

\* C5: Register(n, f2) with a non-nil f2 for a registered n panics with
\* "kvstore: Register called twice for driver " + n and leaves the registry
\* as it was, so n still resolves to the driver registered first.
C5_RegisterTwicePanics ==
    [][(last'.op = "Register" /\ last'.driver # NilDriver
           /\ last'.name \in DOMAIN drivers) =>
          /\ last'.panic = <<"kvstore: Register called twice for driver ">> \o last'.name
          /\ drivers' = drivers]_vars

\* A second, different driver was refused for a registered name.
C5_Witness ==
    /\ last.op = "Register"
    /\ last.panic = <<"kvstore: Register called twice for driver ">> \o last.name
    /\ last.driver \in Drivers
    /\ last.name \in DOMAIN drivers
    /\ drivers[last.name] # last.driver

\* C6: Register(n, nil) panics with "kvstore: Register driver is nil" for
\* every n, registered or not, and leaves the registry as it was.
C6_RegisterNilPanics ==
    [][(last'.op = "Register" /\ last'.driver = NilDriver) =>
          /\ last'.panic = <<"kvstore: Register driver is nil">>
          /\ drivers' = drivers]_vars

\* A nil driver was refused for a name that is registered, while the other
\* name is not.
C6_Witness ==
    /\ last.op = "Register"
    /\ last.driver = NilDriver
    /\ last.panic = <<"kvstore: Register driver is nil">>
    /\ last.name \in DOMAIN drivers
    /\ DOMAIN drivers # Names

\* C7: the registry is insert-only.  Every step keeps every registered name
\* mapped to the same driver.
C7_RegistryInsertOnly ==
    [][\A n \in DOMAIN drivers :
          n \in DOMAIN drivers' /\ drivers'[n] = drivers[n]]_vars

\* Both names are registered, stores exist, and the latest call is a Register
\* that panicked.
C7_Witness ==
    /\ DOMAIN drivers = Names
    /\ Len(stores) = MaxStores
    /\ last.op = "Register"
    /\ last.panic # NoPanic

\* The errors the mock driver and its conn return.
DriverErrors ==
    {MockOpenErr(d) : d \in MockDrivers} \cup
        {MockSetErr, MockGetErr, MockDeleteErr, MockCloseErr}

\* The parts of msg hold sub, in order and next to each other.
Contains(msg, sub) ==
    \E i \in 0..(Len(msg) - Len(sub)) : SubSeq(msg, i + 1, i + Len(sub)) = sub

\* The characters %q puts a backslash before.
Escaped == {"\"", "\\"}
NeedsEscape(s) == \E i \in DOMAIN s : s[i] \in Escaped

\* Reading a quoted string back (strconv.Unquote on the text between the
\* quotes): a backslash stands for the character after it.
RECURSIVE Unescape(_)
Unescape(s) ==
    IF s = <<>> THEN <<>>
    ELSE IF Head(s) = "\\" /\ Len(s) > 1 THEN <<s[2]>> \o Unescape(Tail(Tail(s)))
    ELSE <<Head(s)>> \o Unescape(Tail(s))

\* C8 as stated: New with a name that is not registered returns a nil store
\* and a non-nil error whose message starts with "kvstore: unknown driver "
\* and contains the name; the error is neither ErrNotFound nor a driver's
\* error, and no Open is called.
C8_NewUnknownDriver ==
    (last.op = "New" /\ last.name \notin DOMAIN drivers) =>
        /\ last.retStore = 0
        /\ last.err # NoErr
        /\ Head(last.err.msg) = "kvstore: unknown driver "
        /\ Contains(last.err.msg, last.name)
        /\ last.err # ErrNotFound
        /\ last.err \notin DriverErrors
        /\ last.calls = <<>>

\* C8 amended: New with a name that is not registered returns a nil store
\* and a non-nil error whose message is "kvstore: unknown driver ", the name
\* in double quotes with a backslash before each double quote and backslash
\* of the name, and " (forgotten import?)".  The quoted text reads back as the
\* name, and the message contains the name itself when the name holds no
\* double quote and no backslash.  The error is neither ErrNotFound nor a
\* driver's error, and no Open is called.
C8_NewUnknownDriverQuoted ==
    (last.op = "New" /\ last.name \notin DOMAIN drivers) =>
        LET msg == last.err.msg
            n == Len(last.err.msg)
            quoted == SubSeq(last.err.msg, 3, Len(last.err.msg) - 2)
        IN  /\ last.retStore = 0
            /\ last.err # NoErr
            /\ n >= 4
            /\ msg[1] = "kvstore: unknown driver "
            /\ msg[2] = "\"" /\ msg[n - 1] = "\""
            /\ msg[n] = " (forgotten import?)"
            /\ Unescape(quoted) = last.name
            /\ Len(quoted) = Len(last.name)
                   + Cardinality({i \in DOMAIN last.name : last.name[i] \in Escaped})
            /\ (~NeedsEscape(last.name) => Contains(msg, last.name))
            /\ last.err # ErrNotFound
            /\ last.err \notin DriverErrors
            /\ last.calls = <<>>

\* New failed for the unregistered name a"b, which the message holds only in
\* its escaped form, while another name is registered.
C8_Witness ==
    /\ last.op = "New"
    /\ last.name \notin DOMAIN drivers
    /\ NeedsEscape(last.name)
    /\ ~Contains(last.err.msg, last.name)
    /\ DOMAIN drivers # {}

\* C9: New(n, c) for a registered n calls Open of the driver registered as n
\* exactly once, with exactly c, and calls no other driver's Open.
C9_NewOpensOnce ==
    [][(last'.op = "New" /\ last'.name \in DOMAIN drivers) =>
          LET f == drivers[last'.name] IN
          /\ last'.calls = <<OpenCall(f, last'.info)>>
          /\ \A d \in MockDrivers :
                 openInfo'[d] = IF d = f THEN last'.info ELSE openInfo[d]
          /\ Len(conns') = Len(conns) + (IF f = MemDriver THEN 1 ELSE 0)]_vars

\* New("mock", "info") reached the mock driver registered as "mock" while the
\* memory driver is registered too.
C9_Witness ==
    /\ last.op = "New"
    /\ DOMAIN drivers = Names
    /\ drivers[last.name] \in MockDrivers
    /\ MemDriver \in {drivers[n] : n \in Names}
    /\ last.info = "info"
    /\ openInfo[drivers[last.name]] = "info"

\* C10: when Open of the registered driver returns an error, New returns a
\* nil store and that very error, after one call of Open.
C10_NewOpenFails ==
    (last.op = "New" /\ last.name \in DOMAIN drivers
        /\ drivers[last.name] = MockFail) =>
        /\ last.retStore = 0
        /\ last.err = [src |-> "test", msg |-> <<"open failed">>]
        /\ Len(last.calls) = 1

\* New failed with the mock's "open failed".
C10_Witness ==
    /\ last.op = "New"
    /\ last.name \in DOMAIN drivers
    /\ drivers[last.name] = MockFail
    /\ last.err.msg = <<"open failed">>

\* C11: facade transparency.  A Set, Get or Delete of a KVStore makes one call
\* of the same operation on the wrapped Conn with the same arguments and
\* returns what that call returns: the MockConn's configured error (and, for
\* Get, its value beside the error), a memory.Conn's nil error, value or
\* ErrNotFound.  The Conn is changed by that one call only.
C11_FacadeTransparent ==
    [][last'.op \in {"Set", "Get", "Delete"} =>
          LET op == last'.op
              c == stores[last'.store].conn
              k == last'.key
          IN  /\ last'.calls =
                     <<ConnCall(op, c, k, IF op = "Set" THEN last'.value ELSE NilBytes)>>
              /\ last'.panic = NoPanic
              /\ stores' = stores
              /\ IF c = MockConnRef
                 THEN /\ op = "Set" => last'.err = MockSetErr
                      /\ op = "Get" =>
                             (last'.err = MockGetErr /\ last'.retValue = MockGetValue)
                      /\ op = "Delete" => last'.err = MockDeleteErr
                      /\ conns' = conns
                 ELSE /\ op = "Set" =>
                             /\ last'.err = NoErr
                             /\ conns' = [conns EXCEPT ![c].data = MapSet(@, k, last'.value)]
                      /\ op = "Get" =>
                             /\ conns' = conns
                             /\ IF k \in DOMAIN conns[c].data
                                THEN last'.err = NoErr /\ last'.retValue = conns[c].data[k]
                                ELSE last'.err = ErrNotFound /\ last'.retValue = NilBytes
                      /\ op = "Delete" =>
                             /\ last'.err = NoErr
                             /\ conns' = [conns EXCEPT ![c].data = MapDelete(@, k)]]_vars

\* A Get through a store over the MockConn returned the mock's value beside
\* its error, while another store wraps a memory.Conn that holds a key.
C11_Witness ==
    /\ last.op = "Get"
    /\ stores[last.store].conn = MockConnRef
    /\ last.key = "key"
    /\ last.err = MockGetErr
    /\ last.retValue = MockGetValue
    /\ \E t \in StoreIds : IsMemory(stores[t].conn) /\ conns[stores[t].conn].data # EmptyMap

\* C12: overwrite.  A Set of a key the store already holds returns nil and
\* leaves the key holding the new value, and the Get that follows the second
\* Set returns exactly that value with a nil error.
C12_Overwrite ==
    /\ (last.op = "Set" /\ trail.did = "Overwrite") =>
           /\ last.err = NoErr /\ last.panic = NoPanic
           /\ last.key \in DOMAIN Contents(last.store)
           /\ Contents(last.store)[last.key] = last.value
    /\ (last.op = "Get" /\ trail.after = "Overwrite") =>
           /\ last.err = NoErr
           /\ last.retValue = expected[last.store][last.key]
           /\ last.retValue \in {Slice(b) : b \in Bytes}

\* A Get returned the empty value right after a Set that replaced the key's
\* value with it, in a store that holds the other key too.
C12_Witness ==
    /\ last.op = "Get"
    /\ trail.after = "Overwrite"
    /\ last.retValue = Slice(<<>>)
    /\ DOMAIN Contents(last.store) = Keys

\* C13: delete then get.  A Delete of a key that was Set returns nil and
\* removes it, and the Get that follows returns ErrNotFound itself and a nil
\* value.
C13_DeleteThenGet ==
    /\ (last.op = "Delete" /\ trail.did = "Delete") =>
           /\ last.err = NoErr /\ last.panic = NoPanic
           /\ last.key \notin DOMAIN Contents(last.store)
    /\ (last.op = "Get" /\ trail.after = "Delete") =>
           /\ last.err = ErrNotFound
           /\ last.retValue = NilBytes

\* A Get returned ErrNotFound right after the Delete of a key that had been
\* Set, while the store still holds the other key.
C13_Witness ==
    /\ last.op = "Get"
    /\ trail.after = "Delete"
    /\ last.err = ErrNotFound
    /\ Contents(last.store) # EmptyMap

\* C14: Delete of a key that is not stored returns nil and changes no Conn;
\* every Delete leaves its key absent, so a Delete repeated right after a
\* Delete returns the same result and changes nothing.
C14_DeleteAbsentNoOp ==
    [][last'.op = "Delete" =>
          LET s == last'.store
              k == last'.key
          IN  /\ k \notin DOMAIN conns'[stores'[s].conn].data
              /\ k \notin DOMAIN conns[stores[s].conn].data =>
                     /\ last'.err = NoErr /\ last'.panic = NoPanic
                     /\ conns' = conns
              /\ (last.op = "Delete" /\ last.store = s /\ last.key = k) =>
                     (last' = last /\ conns' = conns)]_vars

\* A Delete was repeated right after a Delete of the same key, in a store that
\* holds the other key.
C14_Witness ==
    /\ last.op = "Delete"
    /\ trail.did = "DeleteAbsent"
    /\ trail.after = "Delete"
    /\ last.err = NoErr
    /\ Contents(last.store) # EmptyMap

\* C15: a Get returns ErrNotFound exactly when the caller of the store does
\* not have the key set, and then with a nil value; on a store that New just
\* returned it returns ErrNotFound for every key, whatever the other stores
\* hold.
C15_GetNotFound ==
    /\ last.op = "Get" =>
           /\ (last.err = ErrNotFound) <=> (last.key \notin DOMAIN expected[last.store])
           /\ last.err \in {NoErr, ErrNotFound}
           /\ last.err = ErrNotFound => last.retValue = NilBytes
    /\ (last.op = "Get" /\ trail.after = "New") => last.err = ErrNotFound

\* A Get on the store New just returned found nothing, while an earlier store
\* of the same driver holds that key.
C15_Witness ==
    /\ last.op = "Get"
    /\ trail.after = "New"
    /\ last.err = ErrNotFound
    /\ \E t \in StoreIds \ {last.store} : last.key \in DOMAIN Contents(t)

\* C16: every KVStore has Close; Close makes one call of Close on the wrapped
\* Conn and returns its result (the MockConn's CloseErr, a memory.Conn's nil);
\* and no other operation calls the Conn's Close.
C16_CloseForwards ==
    /\ \A s \in StoreIds : "Close" \in MethodSet(s)
    /\ last.op = "Close" =>
           LET c == stores[last.store].conn IN
           /\ last.calls = <<ConnCall("Close", c, "", NilBytes)>>
           /\ last.err = IF c = MockConnRef THEN MockCloseErr ELSE NoErr
           /\ last.panic = NoPanic
    /\ last.op # "Close" =>
           \A i \in DOMAIN last.calls : last.calls[i].fn # "Close"

\* A Set, Get or Delete made right after a Close of the same store does what
\* it does on a store that was not closed: no panic, Set stores, Delete
\* removes, Get returns what the caller has set or ErrNotFound.
AfterCloseAsBefore ==
    (trail.after = "Close" /\ last.op \in {"Set", "Get", "Delete", "Close"}) =>
        LET s == last.store
            k == last.key
        IN  /\ last.panic = NoPanic
            /\ last.op \in {"Set", "Delete", "Close"} => last.err = NoErr
            /\ last.op = "Set" =>
                   (k \in DOMAIN Contents(s) /\ Contents(s)[k] = last.value)
            /\ last.op = "Delete" => k \notin DOMAIN Contents(s)
            /\ last.op = "Get" =>
                   IF k \in DOMAIN expected[s]
                   THEN last.err = NoErr /\ last.retValue = expected[s][k]
                   ELSE last.err = ErrNotFound /\ last.retValue = NilBytes

\* C19: Close of a memory.Conn returns nil and changes no Conn, and the calls
\* made after it behave as before it (see AfterCloseAsBefore).
C19_CloseNoOp ==
    /\ []AfterCloseAsBefore
    /\ [][last'.op = "Close" =>
              /\ last'.err = NoErr /\ last'.panic = NoPanic
              /\ conns' = conns /\ stores' = stores]_vars

\* A Get right after a Close returned the value set before the Close.
C19_Witness ==
    /\ last.op = "Get"
    /\ trail.after = "Close"
    /\ last.err = NoErr
    /\ last.retValue = Slice(<<98>>)

\* C20: every KVStore was returned by a New whose Open returned nil: no store
\* wraps the driver whose Open fails, a New that returns a store has made its
\* one call of Open, and while a store wraps the memory driver the driver's
\* map is not nil, so no Set, Get or Delete panics.
C20_OpenBeforeUse ==
    /\ \A s \in StoreIds :
           /\ stores[s].driver # MockFail
           /\ stores[s].driver = DriverMemory => ~memData.isNil
    /\ (last.op = "New" /\ last.retStore # 0) =>
           /\ last.err = NoErr
           /\ last.calls = <<OpenCall(stores[last.retStore].driver, last.info)>>
    /\ last.op \in {"Set", "Get", "Delete"} => last.panic = NoPanic

\* A Set through a store over the memory driver stored the only key, while
\* a New of the driver whose Open fails returned no store.
C20_Witness ==
    /\ last.op = "Set"
    /\ stores[last.store].driver = DriverMemory
    /\ last.panic = NoPanic
    /\ DOMAIN memData.map = {last.key}
    /\ MockFail \in {drivers[n] : n \in DOMAIN drivers}

\* The goroutines inside a critical section of Conn c.
InsideCS(c) == {g \in Goroutines : InCS(g) /\ ConnOf(g) = c}

\* C17: a goroutine inside the critical section of Set or Delete is the only
\* goroutine inside a critical section of that Conn.
C17_WriterExclusive ==
    \A c \in 1..Len(conns) :
        \A g \in InsideCS(c) : IsWrite(pc[g].op) => InsideCS(c) = {g}

\* Two Gets are inside their critical sections at the same time, while a Set
\* waits for them.
C17_Witness ==
    /\ Cardinality(Readers(1)) >= 2
    /\ \E h \in Goroutines : pc[h].op = "Set" /\ pc[h].at = "pending" /\ ConnOf(h) = 1

\* C18: the calls take effect one at a time, each between its entry and its
\* return, in the order of their critical sections.  expected follows the
\* Sets and Deletes in that order, so: the map is what those writes leave,
\* every stored value is a value passed whole to some Set, no call panics,
\* and a Get returns the value of the latest Set in that order, or
\* ErrNotFound if there is none or a Delete followed it.
C18_Linearizable ==
    /\ \A s \in StoreIds :
           /\ Contents(s) = expected[s]
           /\ \A k \in DOMAIN Contents(s) : Contents(s)[k] \in ConcValues
    /\ last.panic = NoPanic
    /\ last.op \in {"Set", "Delete"} => last.err = NoErr
    /\ last.op = "Get" =>
           IF last.key \in DOMAIN expected[last.store]
           THEN /\ last.err = NoErr
                /\ last.retValue = expected[last.store][last.key]
                /\ last.retValue \in ConcValues
           ELSE last.err = ErrNotFound /\ last.retValue = NilBytes

\* A Get returned a value passed to a Set while another Get is still inside
\* its critical section and a Set of a different value waits for the readers.
C18_Witness ==
    /\ last.op = "Get"
    /\ last.retValue \in ConcValues
    /\ \E i, h \in Goroutines :
           /\ pc[i].op = "Get" /\ InCS(i)
           /\ pc[h].op = "Set" /\ pc[h].at = "pending"
           /\ pc[h].value # last.retValue

\* C21: Get is read-only.  A Get, whether it returns a value or ErrNotFound,
\* leaves every Conn's map (and the driver-form map) as it was, and a Get
\* repeated right after a Get of the same key returns the same value and
\* error.
C21_GetReadOnly ==
    [][last'.op = "Get" =>
          /\ conns' = conns
          /\ memData' = memData
          /\ stores' = stores
          /\ (last.op = "Get" /\ last.store = last'.store /\ last.key = last'.key) =>
                 (last'.retValue = last.retValue /\ last'.err = last.err)]_vars

\* A Get repeated right after a Get of the same key returned the stored value
\* again, in a store that still holds both keys.
C21_Witness ==
    /\ last.op = "Get"
    /\ trail.did = "Get"
    /\ trail.after = "Get"
    /\ last.err = NoErr
    /\ last.retValue = Slice(<<98>>)
    /\ DOMAIN Contents(last.store) = Keys

\* C22: a Set or Delete that returned has changed its own key only: every
\* other key of its Conn is present or absent as before with the value it
\* had, the other Conns are as before, and its key holds the value Set or is
\* gone.  So each store's map is always what the completed Sets and Deletes,
\* taken in the order of their critical sections and replayed on an empty
\* map, leave (expected).
C22_WritesOneKey ==
    /\ [](\A s \in StoreIds : Contents(s) = expected[s])
    /\ [][last'.op \in {"Set", "Delete"} =>
              LET c == stores[last'.store].conn
                  k == last'.key
              IN  /\ \A k2 \in (DOMAIN conns[c].data \cup DOMAIN conns'[c].data) \ {k} :
                         /\ k2 \in DOMAIN conns[c].data
                         /\ k2 \in DOMAIN conns'[c].data
                         /\ conns'[c].data[k2] = conns[c].data[k2]
                  /\ \A c2 \in (1..Len(conns)) \ {c} : conns'[c2].data = conns[c2].data
                  /\ last'.op = "Set" =>
                         (k \in DOMAIN conns'[c].data /\ conns'[c].data[k] = last'.value)
                  /\ last'.op = "Delete" => k \notin DOMAIN conns'[c].data]_vars

\* A Delete removed its key and left the other key stored, while another
\* goroutine's Set has been entered and has not taken the lock yet.
C22_Witness ==
    /\ last.op = "Delete"
    /\ last.key \notin DOMAIN Contents(last.store)
    /\ DOMAIN Contents(last.store) # {}
    /\ \E h \in Goroutines : pc[h].op = "Set" /\ pc[h].at = "call"
====
